---- MODULE Spec2Model ----
(***************************************************************************)
(* A model of stestr's `last` and `init` commands (stestr/commands) and of *)
(* TestrConf.get_run_command / TestrConf._sanitize_path (config_file.py).  *)
(* One behaviour is one invocation of one entry point: Init draws the      *)
(* entry point, its arguments and the environment it runs in, and each     *)
(* action is one step of the invoked code.                                 *)
(***************************************************************************)
EXTENDS Integers, Sequences, FiniteSets, TLC

VARIABLES
    cmd,          \* the entry point invoked
    pc,           \* position in the invoked code
    args,         \* the arguments of the invocation
    env,          \* what the invocation reads from outside: repository, user config, config file, platform
    loc,          \* the local variables of the invoked code
    calls,        \* the calls made to collaborators, in order
    stdout,       \* the messages written to the output sink, in order
    stderr,       \* the messages written to the error stream, in order
    outcome,      \* "running", "returned", "exited" (sys.exit) or "raised" (an exception propagates)
    return_code   \* the value returned or passed to sys.exit: "unset", "None", "0", "1" or an exit message

vars == <<cmd, pc, args, env, loc, calls, stdout, stderr, outcome, return_code>>

\* ------------------------------------------------------------------ bounds
\* The most runs a modelled repository holds.
MaxRuns == 2
\* The longest path handed to _sanitize_path on its own.
MaxPathLen == 3

\* ------------------------------------------------------------ Python values
\* Python's None where the other values are strings.
None == "None"
\* Python truthiness of an optional string: `not v` is true of None and of ''.
Falsy(v) == v = None \/ v = ""

\* ---------------------------------------------------------------------------
\* The repository and the renderers (stestr.repository, stestr.results,
\* stestr.subunit_trace): collaborators of the `last` command.
\* A repository is [exists, count, latest_failed]: whether a store exists at
\* the location, how many runs it holds (ids 0 .. count-1), and whether the
\* latest run records a failure.
\* ---------------------------------------------------------------------------
Repositories ==
    { [exists |-> FALSE, count |-> 0, latest_failed |-> FALSE] }
    \cup { [exists |-> TRUE, count |-> 0, latest_failed |-> FALSE] }
    \cup { [exists |-> TRUE, count |-> n, latest_failed |-> f] : n \in 1..MaxRuns, f \in BOOLEAN }

\* util.get_repo_open raises RepositoryNotFound when no store exists.
RepositoryNotFound(repo) == ~repo.exists
\* repo.get_latest_run raises KeyError when the store holds no run.
NoRunsRecorded(repo) == repo.count = 0
\* repo.latest_id(): run ids count up from 0.
latest_id(repo) == repo.count - 1
\* repo.get_test_run(run_id) raises KeyError when no run has that id.
NoSuchRun(repo, run_id) == run_id \notin 0..(repo.count - 1)
\* results.wasSuccessful(summary) after replaying the latest run.
wasSuccessful(repo) == ~repo.latest_failed
\* subunit_trace.trace(...): true when the stream had failures.
trace(repo) == repo.latest_failed

\* ---------------------------------------------------------------------------
\* stestr/commands/last.py
\* ---------------------------------------------------------------------------
LastArgs ==
    [subunit : BOOLEAN, no_subunit_trace : BOOLEAN, force_subunit_trace : BOOLEAN,
     color : BOOLEAN, suppress_attachments : BOOLEAN, all_attachments : BOOLEAN]

\* user_conf: `last` is whether user_conf.last is truthy; the other fields are
\* user_conf.last.get('no-subunit-trace'), user_conf.last.get('color', False),
\* user_conf.run.get('suppress-attachments', False) and
\* user_conf.run.get('all-attachments', False).
UserConfigs ==
    [last : BOOLEAN, last_no_subunit_trace : BOOLEAN, last_color : BOOLEAN,
     run_suppress_attachments : BOOLEAN, run_all_attachments : BOOLEAN]

\* The defaults of last()'s parameters, the locals before take_action sets them.
\* A run handle, and the None that stands for no run.
RunHandle(run_id) == <<run_id>>
NoRun == <<>>

LastDefaults ==
    [pretty_out |-> TRUE, color |-> FALSE, suppress_attachments |-> FALSE,
     all_attachments |-> FALSE, previous_run |-> NoRun, lookup_id |-> 0, rendered_with |-> NoRun,
     failed |-> FALSE, copy_ok |-> TRUE]

MutuallyExclusiveMsg == "The --suppress-attachments and --all-attachments options are mutually exclusive, you can not use both at the same time"

\* Last.take_action, the check of the two command line flags.
FlagsConflict(a) == a.suppress_attachments /\ a.all_attachments

\* Last.take_action: pretty_out.
PrettyOut(a, user_conf) ==
    IF user_conf.last
    THEN a.force_subunit_trace
         \/ (IF ~user_conf.last_no_subunit_trace
             THEN (IF ~a.no_subunit_trace THEN TRUE ELSE FALSE)
             ELSE FALSE)
    ELSE a.force_subunit_trace \/ ~a.no_subunit_trace

\* Last.take_action: color.
Color(a, user_conf) ==
    IF user_conf.last THEN a.color \/ user_conf.last_color ELSE a.color

\* Last.take_action: suppress_attachments.
SuppressAttachments(a, user_conf) ==
    IF user_conf.last
    THEN IF ~a.suppress_attachments /\ ~a.all_attachments
         THEN user_conf.run_suppress_attachments
         ELSE IF a.suppress_attachments THEN a.suppress_attachments
         ELSE FALSE
    ELSE a.suppress_attachments

\* A variant of all_attachments in which --suppress-attachments does not
\* clear the stored all-attachments default.
AllAttachments_KeepsProfile(a, user_conf) ==
    IF user_conf.last
    THEN IF ~a.all_attachments
         THEN user_conf.run_all_attachments
         ELSE a.all_attachments
    ELSE a.all_attachments

\* Last.take_action: all_attachments.
AllAttachments(a, user_conf) ==
    IF user_conf.last
    THEN IF ~a.suppress_attachments /\ ~a.all_attachments
         THEN user_conf.run_all_attachments
         ELSE IF a.suppress_attachments THEN FALSE
         ELSE a.all_attachments
    ELSE a.all_attachments

\* Last.take_action, the settings handed to last().
ResolveSettings(a, user_conf) ==
    [pretty_out |-> PrettyOut(a, user_conf),
     color |-> Color(a, user_conf),
     suppress_attachments |-> SuppressAttachments(a, user_conf),
     all_attachments |-> AllAttachments(a, user_conf)]

InitLast ==
    /\ cmd = "last"
    /\ pc = "take_action"
    /\ args \in LastArgs
    /\ \E user_conf \in UserConfigs, repo \in Repositories :
           env = [user_conf |-> user_conf, repo |-> repo]
    /\ loc = LastDefaults
    /\ calls = <<>>
    /\ stdout = <<>>
    /\ stderr = <<>>
    /\ outcome = "running"
    /\ return_code = "unset"

\* Last.take_action up to its call of last().
TakeAction ==
    /\ cmd = "last" /\ pc = "take_action"
    /\ IF FlagsConflict(args)
       THEN /\ stdout' = Append(stdout, MutuallyExclusiveMsg)
            /\ outcome' = "exited"
            /\ return_code' = "1"
            /\ pc' = "done"
            /\ UNCHANGED loc
       ELSE /\ LET s == ResolveSettings(args, env.user_conf)
               IN loc' = [loc EXCEPT !.pretty_out = s.pretty_out,
                                     !.color = s.color,
                                     !.suppress_attachments = s.suppress_attachments,
                                     !.all_attachments = s.all_attachments]
            /\ pc' = "open_repo"
            /\ UNCHANGED <<stdout, outcome, return_code>>
    /\ UNCHANGED <<cmd, args, env, calls, stderr>>

RepositoryNotFoundMsg == "RepositoryNotFound"
NoRunsMsg == "No runs in repository"

\* last(): util.get_repo_open inside its try/except.
OpenRepo ==
    /\ cmd = "last" /\ pc = "open_repo"
    /\ calls' = Append(calls, "get_repo_open")
    /\ IF RepositoryNotFound(env.repo)
       THEN /\ stdout' = Append(stdout, RepositoryNotFoundMsg)
            /\ outcome' = "returned"
            /\ return_code' = "1"
            /\ pc' = "done"
       ELSE /\ pc' = "load_latest"
            /\ UNCHANGED <<stdout, outcome, return_code>>
    /\ UNCHANGED <<cmd, args, env, loc, stderr>>

\* A variant of the get_latest_run step whose KeyError handler writes the
\* message and goes on instead of returning 1.
LoadLatest_NoReturn ==
    /\ cmd = "last" /\ pc = "load_latest"
    /\ calls' = Append(calls, "get_latest_run")
    /\ IF NoRunsRecorded(env.repo)
       THEN stdout' = Append(stdout, NoRunsMsg)
       ELSE UNCHANGED stdout
    /\ pc' = "loaded"
    /\ UNCHANGED <<cmd, args, env, loc, stderr, outcome, return_code>>

\* last(): repo.get_latest_run inside its try/except.
LoadLatest ==
    /\ cmd = "last" /\ pc = "load_latest"
    /\ calls' = Append(calls, "get_latest_run")
    /\ IF NoRunsRecorded(env.repo)
       THEN /\ stdout' = Append(stdout, NoRunsMsg)
            /\ outcome' = "returned"
            /\ return_code' = "1"
            /\ pc' = "done"
       ELSE /\ pc' = "loaded"
            /\ UNCHANGED <<stdout, outcome, return_code>>
    /\ UNCHANGED <<cmd, args, env, loc, stderr>>

\* A variant of the raw branch's status that reflects the run's outcome.
RawStreamStatus_ReflectsRun == IF env.repo.latest_failed THEN "1" ELSE "0"

\* What last() returns once output.output_stream has written the stream.
RawStreamStatus == "0"

\* last(): the subunit_out branch. The copy either completes or fails with an
\* I/O error, which last() does not catch.
RawStream ==
    /\ cmd = "last" /\ pc = "loaded" /\ args.subunit
    /\ calls' = calls \o <<"get_subunit_stream", "output_stream">>
    /\ \E copy_ok \in BOOLEAN :
           /\ loc' = [loc EXCEPT !.copy_ok = copy_ok]
           /\ IF copy_ok
              THEN outcome' = "returned" /\ return_code' = RawStreamStatus
              ELSE outcome' = "raised" /\ UNCHANGED return_code
    /\ pc' = "done"
    /\ UNCHANGED <<cmd, args, env, stdout, stderr>>

\* A variant of the previous-run lookup that hands on a handle for the
\* requested id whether or not such a run exists.
PreviousRun_KeyErrorNotAbsorbed(repo) == RunHandle(latest_id(repo) - 1)

\* last(): previous_run, the run before the latest, or None on KeyError.
PreviousRun(repo) ==
    IF NoSuchRun(repo, latest_id(repo) - 1)
    THEN NoRun
    ELSE RunHandle(latest_id(repo) - 1)

\* last(): latest_run.get_test() and the previous-run lookup.
LoadPrevious ==
    /\ cmd = "last" /\ pc = "loaded" /\ ~args.subunit
    /\ calls' = calls \o <<"get_test", "latest_id", "get_test_run">>
    /\ loc' = [loc EXCEPT !.lookup_id = latest_id(env.repo) - 1,
                          !.previous_run = PreviousRun(env.repo)]
    /\ pc' = "render"
    /\ UNCHANGED <<cmd, args, env, stdout, stderr, outcome, return_code>>

\* last(): the exit code computed from `failed`.
ExitStatus(failed) == IF failed THEN "1" ELSE "0"

\* last(): the renderer chosen by pretty_out, and its verdict.
RenderFailed(pretty_out, repo) ==
    IF ~pretty_out THEN ~wasSuccessful(repo) ELSE trace(repo)

\* last(): the calls of the renderer chosen by pretty_out.
RenderCalls(pretty_out) ==
    IF ~pretty_out
    THEN <<"CLITestResult", "startTestRun", "case.run", "stopTestRun", "wasSuccessful">>
    ELSE <<"get_subunit_stream", "trace">>

\* last(): rendering and the return. Only CLITestResult is handed previous_run.
Render ==
    /\ cmd = "last" /\ pc = "render"
    /\ calls' = calls \o RenderCalls(loc.pretty_out)
    /\ LET failed == RenderFailed(loc.pretty_out, env.repo)
       IN /\ loc' = [loc EXCEPT !.failed = failed,
                                !.rendered_with =
                                    IF ~loc.pretty_out THEN loc.previous_run ELSE NoRun]
          /\ return_code' = ExitStatus(failed)
    /\ outcome' = "returned"
    /\ pc' = "done"
    /\ UNCHANGED <<cmd, args, env, stdout, stderr>>

NextLast == TakeAction \/ OpenRepo \/ LoadLatest \/ RawStream \/ LoadPrevious \/ Render

\* ---------------------------------------------------------------------------
\* stestr/commands/init.py
\* ---------------------------------------------------------------------------
\* The repository location used when no repo_url is given (init's docstring).
DefaultRepoLocation == "./.stestr"

\* The outcomes of util.get_repo_initialise: the repository is created, or
\* OSError with errno EEXIST, or OSError with another errno.
InitialiseOutcomes == {"created", "EEXIST", "EACCES"}

InitArgs ==
    [entry : {"Init.take_action", "init"}, repo_type : {"file", "sql"},
     repo_url : {None, "/srv/results"}]

SqlDeprecationMsg == "WARNING: The sql repository type is deprecated and will be removed in the 4.0.0 release. Instead use the file repository type"
AlreadyExistsMsg == "The specified repository directory %s already exists. Please check if the repository already exists or select a different path"

InitInit ==
    /\ cmd = "init"
    /\ pc = "warn"
    /\ args \in InitArgs
    /\ \E o \in InitialiseOutcomes : env = [initialise |-> o]
    /\ loc = [repo_path |-> None, init_result |-> "unset"]
    /\ calls = <<>>
    /\ stdout = <<>>
    /\ stderr = <<>>
    /\ outcome = "running"
    /\ return_code = "unset"

\* init(): the deprecation warning of the sql repository type.
InitWarn ==
    /\ cmd = "init" /\ pc = "warn"
    /\ stderr' = IF args.repo_type = "sql" THEN Append(stderr, SqlDeprecationMsg) ELSE stderr
    /\ pc' = "initialise"
    /\ UNCHANGED <<cmd, args, env, loc, calls, stdout, outcome, return_code>>

\* init(): the location named in the "already exists" message.
RepoPath(repo_url) == IF Falsy(repo_url) THEN "./stestr" ELSE repo_url

\* init(): what the function returns: 1 from the EEXIST handler, and None when
\* it runs off its end after creating the repository.
InitResult(initialise) == IF initialise = "EEXIST" THEN "1" ELSE "None"

\* init(): util.get_repo_initialise inside its try/except.
InitInitialise ==
    /\ cmd = "init" /\ pc = "initialise"
    /\ calls' = Append(calls, "get_repo_initialise")
    /\ IF env.initialise = "EACCES"
       THEN /\ outcome' = "raised" /\ pc' = "done"
            /\ UNCHANGED <<loc, stdout, return_code>>
       ELSE /\ IF env.initialise = "EEXIST"
               THEN /\ stdout' = Append(stdout, AlreadyExistsMsg)
                    /\ loc' = [loc EXCEPT !.repo_path = RepoPath(args.repo_url),
                                          !.init_result = InitResult(env.initialise)]
               ELSE /\ loc' = [loc EXCEPT !.init_result = InitResult(env.initialise)]
                    /\ UNCHANGED stdout
            /\ IF args.entry = "init"
               THEN outcome' = "returned" /\ return_code' = InitResult(env.initialise) /\ pc' = "done"
               ELSE pc' = "take_action_return" /\ UNCHANGED <<outcome, return_code>>
    /\ UNCHANGED <<cmd, args, env, stderr>>

\* Init.take_action: it calls init() and returns nothing.
TakeActionResult(init_result) == "None"

\* Init.take_action after init() has returned.
InitTakeActionReturn ==
    /\ cmd = "init" /\ pc = "take_action_return"
    /\ outcome' = "returned"
    /\ return_code' = TakeActionResult(loc.init_result)
    /\ pc' = "done"
    /\ UNCHANGED <<cmd, args, env, loc, calls, stdout, stderr>>

NextInit == InitWarn \/ InitInitialise \/ InitTakeActionReturn

\* ---------------------------------------------------------------------------
\* stestr/config_file.py: TestrConf._sanitize_path
\* A path is a sequence of characters; NonePath stands for Python's None
\* where the other values are paths.
\* ---------------------------------------------------------------------------
BS == "\\"
NL == "\n"
Chars == {"a", BS, NL}
NonePath == <<"None">>
FalsyPath(p) == p = NonePath \/ p = <<>>

\* _escape_trailing_backslash_re, r'(?<=[^\\])\\$', matching the character at i:
\* a backslash, after a character that is not a backslash, at the end of the
\* string or right before a newline that ends the string.
TrailingBackslashMatch(path, i) ==
    /\ path[i] = BS
    /\ i > 1 /\ path[i - 1] # BS
    /\ \/ i = Len(path)
       \/ i = Len(path) - 1 /\ path[Len(path)] = NL

RECURSIVE SubFrom(_, _)
\* _escape_trailing_backslash_re.sub(r'\\\\', path) from character i on: each
\* match becomes two backslashes.
SubFrom(path, i) ==
    IF i > Len(path) THEN <<>>
    ELSE (IF TrailingBackslashMatch(path, i) THEN <<BS, BS>> ELSE <<path[i]>>)
         \o SubFrom(path, i + 1)

\* TestrConf._sanitize_path on a platform whose os.sep is os_sep.
SanitizePath(path, os_sep) ==
    IF os_sep = BS THEN SubFrom(path, 1) ELSE path

RECURSIVE SeqsUpTo(_, _)
SeqsUpTo(S, n) ==
    IF n = 0 THEN {<<>>}
    ELSE LET shorter == SeqsUpTo(S, n - 1)
         IN shorter \cup {Append(p, c) : p \in shorter, c \in S}

InitSanitize ==
    /\ cmd = "_sanitize_path"
    /\ pc = "call"
    /\ \E path \in SeqsUpTo(Chars, MaxPathLen) : args = [path |-> path]
    /\ \E os_sep \in {"/", BS} : env = [os_sep |-> os_sep]
    /\ loc = [once |-> <<>>, twice |-> <<>>]
    /\ calls = <<>>
    /\ stdout = <<>>
    /\ stderr = <<>>
    /\ outcome = "running"
    /\ return_code = "unset"

\* _sanitize_path applied to the path.
Sanitize ==
    /\ cmd = "_sanitize_path" /\ pc = "call"
    /\ loc' = [loc EXCEPT !.once = SanitizePath(args.path, env.os_sep)]
    /\ pc' = "again"
    /\ UNCHANGED <<cmd, args, env, calls, stdout, stderr, outcome, return_code>>

\* _sanitize_path applied to its own result.
SanitizeAgain ==
    /\ cmd = "_sanitize_path" /\ pc = "again"
    /\ loc' = [loc EXCEPT !.twice = SanitizePath(loc.once, env.os_sep)]
    /\ outcome' = "returned"
    /\ pc' = "done"
    /\ UNCHANGED <<cmd, args, env, calls, stdout, stderr, return_code>>

NextSanitize == Sanitize \/ SanitizeAgain

\* ---------------------------------------------------------------------------
\* stestr/config_file.py: TestrConf.get_run_command
\* ---------------------------------------------------------------------------
\* The caller's arguments. parallel_class is None, "False" or "True".
RunCommandArgs ==
    [test_path : {NonePath, <<>>, <<"a", BS>>},
     top_dir : {NonePath, <<"a", "a", BS>>},
     group_regex : {None, "", "^(foo\\.)"},
     parallel_class : {None, "False", "True"}]

\* The section of the config file: for each key its value, or None / NonePath
\* when the section has no such option.
ConfigSections ==
    [test_path : {NonePath, <<>>, <<"a">>},
     top_dir : {NonePath, <<"a", "a">>},
     parallel_class : {None, "true", "false", "maybe"},
     group_regex : {None, "", "^(bar\\.)"}]

ConfigFiles == {".stestr.conf", "tox.ini"}

\* self.parser.has_option(self.section, key)
has_option(parser, key) ==
    IF key \in {"test_path", "top_dir"} THEN parser[key] # NonePath ELSE parser[key] # None

\* configparser's getboolean: the values it reads as booleans; any other
\* value raises ValueError.
BooleanStates == {"1", "yes", "true", "on", "0", "no", "false", "off"}
getboolean(value) == value \in {"1", "yes", "true", "on"}

\* The interpreters sys.executable may hold ("" when it is unavailable) and the
\* values of PYTHON in the environment ("" when it is not set).
Executables == {"", "/usr/bin/python3", "/opt/my python/bin/python3"}
PythonEnvs == {"", "python3.9"}

InitRunCommand ==
    /\ cmd = "get_run_command"
    /\ pc = "resolve_paths"
    /\ args \in RunCommandArgs
    /\ \E parser \in ConfigSections, config_file \in ConfigFiles, platform \in {"win32", "linux"} :
           env = [parser |-> parser, config_file |-> config_file,
                  platform |-> platform,
                  os_sep |-> IF platform = "win32" THEN BS ELSE "/"]
    /\ loc = [test_path |-> NonePath, top_dir |-> NonePath, python |-> None,
              quoted |-> FALSE, group_regex |-> None, group_callback |-> None,
              error |-> <<>>]
    /\ calls = <<>>
    /\ stdout = <<>>
    /\ stderr = <<>>
    /\ outcome = "running"
    /\ return_code = "unset"

\* get_run_command: test_path from the argument, else from the section.
TestPath(test_path, parser) ==
    IF FalsyPath(test_path) /\ has_option(parser, "test_path")
    THEN parser.test_path
    ELSE test_path

\* get_run_command: the sys.exit taken when no test_path is found.
NoTestPath(test_path, parser) ==
    ~(FalsyPath(test_path) /\ has_option(parser, "test_path")) /\ FalsyPath(test_path)

\* get_run_command: top_dir from the argument, else from the section, else './'.
TopDir(top_dir, parser) ==
    IF FalsyPath(top_dir) /\ has_option(parser, "top_dir")
    THEN parser.top_dir
    ELSE IF FalsyPath(top_dir) THEN <<".", "/">>
    ELSE top_dir

NoTestPathMsg == "No test_path can be found in either the command line options nor in the specified config file {}.  Please specify a test path either in the config file or via the --test-path argument"

\* get_run_command: test_path and top_dir, resolved and sanitized.
ResolvePaths ==
    /\ cmd = "get_run_command" /\ pc = "resolve_paths"
    /\ IF NoTestPath(args.test_path, env.parser)
       THEN /\ outcome' = "exited"
            /\ return_code' = NoTestPathMsg
            /\ loc' = [loc EXCEPT !.error = <<env.config_file>>]
            /\ pc' = "done"
       ELSE /\ loc' = [loc EXCEPT
                  !.test_path = SanitizePath(TestPath(args.test_path, env.parser), env.os_sep),
                  !.top_dir = SanitizePath(TopDir(args.top_dir, env.parser), env.os_sep)]
            /\ pc' = "resolve_python"
            /\ UNCHANGED <<outcome, return_code>>
    /\ UNCHANGED <<cmd, args, env, calls, stdout, stderr>>

\* get_run_command: the interpreter of the command, None when none is found.
Python(platform, stestr_python, env_python) ==
    IF platform = "win32"
    THEN (IF stestr_python = "" THEN None ELSE stestr_python)
    ELSE IF env_python # "" THEN "${PYTHON}"
    ELSE IF stestr_python # "" THEN stestr_python
    ELSE None

\* get_run_command: the interpreter is quoted when os.path.exists('"%s"' % python).
Quoted(quoted_path_exists) == quoted_path_exists

\* get_run_command: the interpreter and the command built around it.
ResolvePython ==
    /\ cmd = "get_run_command" /\ pc = "resolve_python"
    /\ \E stestr_python \in Executables, env_python \in PythonEnvs, quoted_path_exists \in BOOLEAN :
           LET python == Python(env.platform, stestr_python, env_python)
           IN /\ env' = [parser |-> env.parser, config_file |-> env.config_file,
                         platform |-> env.platform, os_sep |-> env.os_sep,
                         sys_executable |-> stestr_python, PYTHON |-> env_python,
                         quoted_path_exists |-> quoted_path_exists]
              /\ IF python = None
                 THEN /\ outcome' = "raised"
                      /\ loc' = [loc EXCEPT !.error = <<"RuntimeError">>]
                      /\ pc' = "done"
                 ELSE /\ loc' = [loc EXCEPT !.python = python,
                                            !.quoted = Quoted(quoted_path_exists)]
                      /\ pc' = "resolve_group"
                      /\ UNCHANGED outcome
    /\ UNCHANGED <<cmd, args, calls, stdout, stderr, return_code>>

\* The pattern that groups tests by class, r'([^\.]*\.)*'.
ClassPattern == "([^\\.]*\\.)*"

\* get_run_command: whether the section's parallel_class is read with getboolean.
ReadsSectionParallelClass(a, parser) ==
    /\ Falsy(IF a.parallel_class = "True" THEN ClassPattern ELSE a.group_regex)
    /\ has_option(parser, "parallel_class")

\* A variant of group_regex in which the caller's parallel_class leaves a
\* pattern the caller supplied in place.
GroupRegex_KeepsCallerPattern(a, parser) ==
    LET g1 == IF a.parallel_class = "True" /\ Falsy(a.group_regex)
              THEN ClassPattern ELSE a.group_regex
        g2 == IF Falsy(g1) /\ has_option(parser, "parallel_class")
                 /\ getboolean(parser.parallel_class)
              THEN ClassPattern ELSE g1
        g3 == IF Falsy(g2) /\ has_option(parser, "group_regex")
              THEN parser.group_regex ELSE g2
    IN g3

\* get_run_command: group_regex after the three assignments.
GroupRegex(a, parser) ==
    LET g1 == IF a.parallel_class = "True" THEN ClassPattern ELSE a.group_regex
        g2 == IF Falsy(g1) /\ has_option(parser, "parallel_class")
                 /\ getboolean(parser.parallel_class)
              THEN ClassPattern ELSE g1
        g3 == IF Falsy(g2) /\ has_option(parser, "group_regex")
              THEN parser.group_regex ELSE g2
    IN g3

\* get_run_command: group_callback, a closure over the compiled pattern or None.
GroupCallback(group_regex) == IF ~Falsy(group_regex) THEN group_regex ELSE None

\* get_run_command: the group pattern and its callback.
ResolveGroup ==
    /\ cmd = "get_run_command" /\ pc = "resolve_group"
    /\ IF ReadsSectionParallelClass(args, env.parser)
          /\ env.parser.parallel_class \notin BooleanStates
       THEN /\ outcome' = "raised"
            /\ loc' = [loc EXCEPT !.error = <<"ValueError">>]
            /\ pc' = "done"
       ELSE /\ loc' = [loc EXCEPT
                  !.group_regex = GroupRegex(args, env.parser),
                  !.group_callback = GroupCallback(GroupRegex(args, env.parser))]
            /\ pc' = "open_repository"
            /\ UNCHANGED outcome
    /\ UNCHANGED <<cmd, args, env, calls, stdout, stderr, return_code>>

\* get_run_command: util.get_repo_open and the fixture returned.
OpenRepository ==
    /\ cmd = "get_run_command" /\ pc = "open_repository"
    /\ calls' = Append(calls, "get_repo_open")
    /\ \E repo_exists \in BOOLEAN :
           IF repo_exists
           THEN outcome' = "returned" /\ return_code' = "TestProcessorFixture"
           ELSE outcome' = "raised" /\ UNCHANGED return_code
    /\ pc' = "done"
    /\ UNCHANGED <<cmd, args, env, loc, stdout, stderr>>

NextRunCommand == ResolvePaths \/ ResolvePython \/ ResolveGroup \/ OpenRepository

\* ---------------------------------------------------------------------------
\* One invocation of one entry point.
\* ---------------------------------------------------------------------------
Init == InitLast \/ InitInit \/ InitSanitize \/ InitRunCommand

Next == NextLast \/ NextInit \/ NextSanitize \/ NextRunCommand

Spec == Init /\ [][Next]_vars

\* ---------------------------------------------------------------------------
\* Properties of the `last` command
\* ---------------------------------------------------------------------------
IsPrefix(s, t) == Len(s) <= Len(t) /\ SubSeq(t, 1, Len(s)) = s

\* The latest run was loaded: the flags passed the check, the store exists and holds a run.
LatestLoaded ==
    cmd = "last" /\ ~FlagsConflict(args) /\ env.repo.exists /\ env.repo.count > 0

\* C1: whenever the settings `last` would use have suppress_attachments and
\* all_attachments both true, whether from the two command line flags or
\* from the stored run-level defaults, the invocation ends with exit status 1
\* and makes no call to the repository.
C1_ConflictExitsBeforeRepository ==
    (cmd = "last"
     /\ (FlagsConflict(args)
         \/ (ResolveSettings(args, env.user_conf).suppress_attachments
             /\ ResolveSettings(args, env.user_conf).all_attachments)))
    => /\ calls = <<>>
       /\ pc = "done" => return_code = "1"

\* C2: in raw-stream mode last() returns 0 whenever the copy completes,
\* whether or not the latest run records a failure, and a failed copy
\* propagates instead of returning 0; a latest run that records a failure
\* gives exit status 1 in both rendered modes.
C2_RawStreamExitStatus ==
    (LatestLoaded /\ pc = "done")
    => /\ (args.subunit /\ loc.copy_ok) => (outcome = "returned" /\ return_code = "0")
       /\ (args.subunit /\ ~loc.copy_ok) => (outcome = "raised" /\ return_code \notin {"0", "None"})
       /\ (~args.subunit /\ env.repo.latest_failed) => (outcome = "returned" /\ return_code = "1")

C2_Witness ==
    /\ LatestLoaded /\ pc = "done" /\ args.subunit /\ loc.copy_ok
    /\ env.repo.latest_failed /\ return_code = "0"

RawPath == <<"get_repo_open", "get_latest_run", "get_subunit_stream", "output_stream">>
RenderedPath(renderer) ==
    <<"get_repo_open", "get_latest_run", "get_test", "latest_id", "get_test_run">> \o renderer
StructuredPath ==
    RenderedPath(<<"CLITestResult", "startTestRun", "case.run", "stopTestRun", "wasSuccessful">>)
TracePath == RenderedPath(<<"get_subunit_stream", "trace">>)
Called(fn) == \E i \in 1..Len(calls) : calls[i] = fn

\* C3: the stages run in the order open, load latest, then either the raw
\* copy or the previous-run lookup followed by a renderer; a repository that
\* is not found ends the invocation with its message written, 1 returned and
\* the latest run never requested; a repository with no runs ends it with its
\* message written, 1 returned and neither the previous-run lookup nor a
\* renderer invoked.
C3_StageOrder ==
    cmd = "last"
    => /\ \/ IsPrefix(calls, RawPath) /\ (Len(calls) > 2 => args.subunit)
          \/ IsPrefix(calls, StructuredPath) /\ (Len(calls) > 2 => ~args.subunit)
          \/ IsPrefix(calls, TracePath) /\ (Len(calls) > 2 => ~args.subunit)
       /\ (Called("get_repo_open") /\ RepositoryNotFound(env.repo))
          => /\ pc = "done" /\ outcome = "returned" /\ return_code = "1"
             /\ stdout = <<RepositoryNotFoundMsg>>
             /\ calls = <<"get_repo_open">>
       /\ (Called("get_latest_run") /\ NoRunsRecorded(env.repo))
          => /\ pc = "done" /\ outcome = "returned" /\ return_code = "1"
             /\ stdout = <<NoRunsMsg>>
             /\ calls = <<"get_repo_open", "get_latest_run">>

C3_Witness ==
    /\ cmd = "last" /\ pc = "done" /\ env.repo.exists /\ NoRunsRecorded(env.repo)
    /\ Called("get_latest_run") /\ return_code = "1"

\* C4 as stated: with exactly one run stored, every invocation of `last`
\* attempts the previous-run lookup for the latest id minus one, absorbs its
\* failure, and renders the latest run with no previous run, the exit status
\* following the latest run alone.
C4_Original_LookupOnEveryInvocation ==
    (LatestLoaded /\ env.repo.count = 1 /\ pc = "done" /\ outcome = "returned")
    => /\ Called("get_test_run")
       /\ loc.lookup_id = latest_id(env.repo) - 1
       /\ loc.previous_run = NoRun /\ loc.rendered_with = NoRun
       /\ (return_code = "1") <=> env.repo.latest_failed

\* C4 amended: the same, for the invocations that render (subunit_out false).
C4_SingleRunRendered ==
    (LatestLoaded /\ env.repo.count = 1 /\ ~args.subunit /\ pc = "done")
    => /\ Called("get_test_run")
       /\ loc.lookup_id = latest_id(env.repo) - 1
       /\ loc.previous_run = NoRun /\ loc.rendered_with = NoRun
       /\ outcome = "returned"
       /\ (return_code = "1") <=> env.repo.latest_failed
       /\ (return_code = "0") <=> ~env.repo.latest_failed

C4_Witness ==
    /\ LatestLoaded /\ env.repo.count = 1 /\ ~args.subunit /\ pc = "done"
    /\ ~loc.pretty_out /\ Called("get_test_run") /\ Called("CLITestResult")
    /\ loc.previous_run = NoRun /\ return_code = "0"

ResolvedLocation(repo_url) == IF Falsy(repo_url) THEN DefaultRepoLocation ELSE repo_url

\* The process exit status of a command result: cliff turns None into 0.
ExitStatusOf(result) == IF result = "None" THEN "0" ELSE result

\* C5: `init` yields exit status 0 when it creates the repository and 1 when
\* the location already exists, and then the message names the location the
\* repository was resolved to; for init()'s return value and for the command.
C5_InitExitStatus ==
    (cmd = "init" /\ pc = "done" /\ outcome = "returned")
    => /\ env.initialise = "created" => ExitStatusOf(return_code) = "0"
       /\ env.initialise = "EEXIST"
          => /\ ExitStatusOf(return_code) = "1"
             /\ stdout = <<AlreadyExistsMsg>>
             /\ loc.repo_path = ResolvedLocation(args.repo_url)

\* ---------------------------------------------------------------------------
\* Properties of _sanitize_path
\* ---------------------------------------------------------------------------
RECURSIVE TrailingBackslashes(_)
TrailingBackslashes(path) ==
    IF path = <<>> \/ path[Len(path)] # BS THEN 0
    ELSE 1 + TrailingBackslashes(SubSeq(path, 1, Len(path) - 1))

\* C10: where os.sep is a backslash, _sanitize_path doubles the final
\* backslash of every path ending in an odd number of backslashes, a path of
\* backslashes alone included, and returns every path not ending in a
\* backslash unchanged; elsewhere it returns every path unchanged; applying
\* it to its own result changes nothing.
C10_SanitizePath ==
    (cmd = "_sanitize_path" /\ pc = "done")
    => /\ env.os_sep # BS => loc.once = args.path
       /\ (env.os_sep = BS /\ TrailingBackslashes(args.path) % 2 = 1)
          => loc.once = Append(args.path, BS)
       /\ (env.os_sep = BS /\ TrailingBackslashes(args.path) = 0)
          => loc.once = args.path
       /\ loc.twice = loc.once

\* ---------------------------------------------------------------------------
\* Properties of get_run_command
\* ---------------------------------------------------------------------------
\* The group pattern has been decided: ResolveGroup ran and did not raise.
GroupResolved ==
    /\ cmd = "get_run_command"
    /\ pc = "open_repository" \/ (pc = "done" /\ Called("get_repo_open"))

\* C6: get_run_command never returns a descriptor with an empty test path:
\* when neither the caller nor the section supplies a non-empty test_path it
\* exits with an error naming the config file, before the interpreter is
\* resolved and before the repository is opened; otherwise the caller's value
\* is used when given, else the section's.
C6_TestPathNeverEmpty ==
    cmd = "get_run_command"
    => /\ (pc # "resolve_paths" /\ FalsyPath(args.test_path) /\ FalsyPath(env.parser.test_path))
          => /\ pc = "done" /\ outcome = "exited"
             /\ loc.error = <<env.config_file>>
             /\ loc.python = None /\ calls = <<>>
       /\ (pc # "resolve_paths" /\ ~FalsyPath(args.test_path))
          => loc.test_path = SanitizePath(args.test_path, env.os_sep)
       /\ (pc # "resolve_paths" /\ FalsyPath(args.test_path) /\ ~FalsyPath(env.parser.test_path))
          => loc.test_path = SanitizePath(env.parser.test_path, env.os_sep)
       /\ return_code = "TestProcessorFixture" => loc.test_path # <<>>

C9_CallerParallelClassWins ==
    GroupResolved
    => /\ args.parallel_class = "True" => loc.group_callback = ClassPattern
       /\ args.parallel_class = "False" => loc.group_callback # ClassPattern

\* The interpreter has been decided: ResolvePython ran.
PythonResolved ==
    /\ cmd = "get_run_command"
    /\ pc \in {"resolve_group", "open_repository"}
       \/ (pc = "done" /\ outcome # "exited")

\* The interpreter paths that contain whitespace.
HasWhitespace(python) == python = "/opt/my python/bin/python3"

\* C11: the interpreter of the command is sys.executable on win32 (an error
\* when it is unavailable); elsewhere the placeholder ${PYTHON} when PYTHON is
\* set, else sys.executable, else an error; and it appears in double quotes
\* in the command exactly when its path contains whitespace.
C11_InterpreterChoiceAndQuoting ==
    PythonResolved
    => LET chosen ==
               IF env.platform = "win32" THEN env.sys_executable
               ELSE IF env.PYTHON # "" THEN "${PYTHON}"
               ELSE env.sys_executable
       IN /\ chosen = "" => (pc = "done" /\ outcome = "raised" /\ loc.error = <<"RuntimeError">>)
          /\ chosen # ""
             => /\ loc.python = chosen
                /\ loc.quoted <=> HasWhitespace(chosen)

====
